---- MODULE Spec2Model ----
(***************************************************************************)
(* ReflexAI backend: the unified analysis pipeline                          *)
(* (backend/app/services/analysis_pipeline.py) and the results store with   *)
(* its retrieval endpoints (backend/app/api/analysis_router.py).            *)
(*                                                                          *)
(* The pipeline and the router share no state (the router owns its own      *)
(* service instances and never calls AnalysisPipeline), so each has its own *)
(* next-state relation: Spec runs AnalysisPipeline.analyze, SpecApi runs    *)
(* the router from the state after import, SpecStore runs the retrieval     *)
(* handlers from every content of the module-level results store.           *)
(*                                                                          *)
(* Python values are modelled as tuples <<type, ...>>; an Optional field is *)
(* <<>> when it is None and <<v>> when it holds v.                          *)
(***************************************************************************)
EXTENDS Integers, Sequences, FiniteSets, TLC

\* ---------------------------------------------------------------- bounds
MaxTime == 2

MaxIds == 2

MaxReq == 2

MaxClusterList == 6

\* distinct words per sentiment occurring twice / three times
MaxWords == 13

MaxFrequent == 2

\* the inputs of create_clusters
MaxSentences == 11

MaxFeatures == 11

MaxUniqueWords == 31

MaxClusters == 7

MaxSeed == 2

\* the sentences of a text handed to analyze_sentiment
MaxSentimentSentences == 3

\* the texts handed to _calculate_text_statistics
MaxStatWords == 2

MaxStatSentences == 2

MaxParagraphs == 2

\* the length of the texts handed to clean_text
MaxTextLen == 5

\* ------------------------------------------------------- python values
None == <<>>

Some(v) == <<v>>

NoneType == <<"NoneType">>

\* texts handed to analyze: a plain str, a str holding a lone surrogate
\* (not encodable as UTF-8), and a value that is not a str
Texts == {<<"str", "plain">>, <<"str", "surrogate">>, NoneType}

\* analysis ids handed to analyze: a str, or a value of the wrong type
AnalysisIds == {<<"str", "a1">>, NoneType}

\* parameters handed to analyze: None, dicts, and values of the wrong type
Parameters == {NoneType, <<"dict", "empty">>, <<"dict", "nonempty">>,
               <<"list", "empty">>, <<"list", "nonempty">>}

Times == 0..MaxTime

\* str(e) of the exceptions a stage can raise: some text, or the empty
\* string (an exception constructed without arguments)
ExceptionMessages == {"stage error", ""}

\* Python truthiness of a parameters value
Truthy(v) == v # NoneType /\ v[2] # "empty"

\* `parameters or {}`
ParametersOrEmpty(p) == IF Truthy(p) THEN p ELSE <<"dict", "empty">>

\* pydantic validation of a field declared `str`
StrValid(v) == v[1] = "str"

\* pydantic validation of a field declared Optional[Dict[str, Any]]
DictValid(v) == v = NoneType \/ v[1] = "dict"

\* text.encode('utf-8') succeeds
Utf8Encodable(t) == t[1] = "str" /\ t[2] # "surrogate"

\* ---------------------------------------------------------- data model
AnalysisStatus == {"pending", "processing", "completed", "failed"}

TerminalStatus == {"completed", "failed"}

\* position of a status on PENDING -> PROCESSING -> {COMPLETED | FAILED}
StatusRank(s) == CASE s = "pending" -> 0
                   [] s = "processing" -> 1
                   [] OTHER -> 2

\* AnalysisResult(id=..., timestamp=..., status=...): every other field
\* takes its default None
AnalysisResult(id, timestamp, status) ==
    [id |-> id, timestamp |-> timestamp, status |-> status,
     keyness |-> None, semanticClusters |-> None, semanticClustering |-> None,
     sentiment |-> None, textStatistics |-> None, aiInsights |-> None,
     metadata |-> None, error_message |-> None]

\* ProcessingMetadata(...): file_size_bytes and model_versions are Optional;
\* processing_time_seconds is the time between the clock readings taken with
\* the start and the end timestamp
ProcessingMetadata(start, end, size, versions, params) ==
    [start_time |-> start, end_time |-> end,
     processing_time_seconds |-> end - start, file_size_bytes |-> size,
     model_versions |-> versions, parameters |-> params]

\* the order of the stages of one run
StageOrder == <<"normalize", "statistics", "keyness", "clustering",
                "sentiment", "insight">>

HardStages == {"normalize", "statistics", "keyness", "clustering", "sentiment"}

StageIndex(s) == CHOOSE i \in 1..Len(StageOrder) : StageOrder[i] = s

\* the result field a stage fills
PayloadOf(s) == CASE s = "statistics" -> "textStatistics"
                  [] s = "keyness" -> "keyness"
                  [] s = "clustering" -> "semanticClustering"
                  [] s = "sentiment" -> "sentiment"
                  [] s = "insight" -> "aiInsights"
                  [] OTHER -> "none"

VARIABLES
    ollama_client,   \* OllamaService.client is set (the service answered at construction)
    pc,              \* position of the analyze call
    args,            \* its arguments [text, analysis_id, parameters]
    start_timestamp, \* local start_timestamp
    result,          \* local result: None before line 41, else Some(AnalysisResult)
    exc,             \* the exception being handled or propagated: None or Some(str(e))
    ai_insights,     \* local ai_insights
    done,            \* the stages that have completed in this call
    failed,          \* the stage that raised in this call, or "none"
    insight_outcome  \* what the insight stage did in this call

pvars == <<ollama_client, pc, args, start_timestamp, result, exc, ai_insights,
           done, failed, insight_outcome>>

VARIABLES
    analysis_cache,  \* the module-level results store: analysis id -> result
    req,             \* the requests in flight, one per slot
    issued,          \* the analysis ids generated or stored so far
    downloads,       \* per id, how many downloads have returned its result (counted up to 2)
    last_get,        \* per id, the last response of get_results since an eviction
    temp_files       \* the files in FileHandler.temp_dir, named by the analysis id
                     \* of the upload that saved them

rvars == <<analysis_cache, req, issued, downloads, last_get, temp_files>>

VARIABLES
    svc              \* the call of a service method in progress: the method, its
                     \* arguments and what it returned or raised

VARIABLES
    vectorizer       \* the shared TfidfVectorizer and PCA of the router's
                     \* semantic_clusterer: the request in flight on whose
                     \* sentences they were last fitted, 0 when they are not
                     \* fitted or that request has got its response

svars == <<svc, vectorizer>>

vars == <<pvars, rvars, svars>>

\* analysis ids (uuid4 strings) and request slots
Ids == 1..MaxIds

Req == 1..MaxReq

NoResponse == [code |-> 0, body |-> None]

\* a slot holds a request from its arrival until its response has been sent
FreeSlot == [kind |-> "none", id |-> 0, pc |-> "free",
             json_content |-> None, resp |-> NoResponse,
             filename |-> "none", analysis_id |-> None, file_path |-> None,
             background |-> None, error |-> None]

\* the results a store entry for id i can hold
StoredResults(i) == {AnalysisResult(<<"str", i>>, 0, "completed")}

\* every content of the results store
StoreContents ==
    UNION {{f \in [S -> UNION {StoredResults(i) : i \in S}] :
               \A i \in S : f[i] \in StoredResults(i)} : S \in SUBSET Ids}

NoArgs == [text |-> NoneType, analysis_id |-> NoneType, parameters |-> NoneType]

RouterInit(cache) ==
    /\ analysis_cache = cache
    /\ req = [r \in Req |-> FreeSlot]
    /\ issued = DOMAIN cache
    /\ downloads = [i \in Ids |-> 0]
    /\ last_get = [i \in Ids |-> None]
    /\ temp_files = {}

\* no service method is being called
NoCall == [fn |-> "none", args |-> <<>>, out |-> <<>>]

ServicesIdle == svc = NoCall

\* semantic_clustering.py lines 9-11: SemanticClusterer() builds a
\* TfidfVectorizer and a PCA that are not fitted
ClustererInit == vectorizer = 0

\* no analyze call is running; client: the pipeline's OllamaService has a client
PipelineIdle(client) ==
    /\ ollama_client = client
    /\ pc = "idle"
    /\ args = NoArgs
    /\ start_timestamp = 0
    /\ result = None
    /\ exc = None
    /\ ai_insights = None
    /\ done = {}
    /\ failed = "none"
    /\ insight_outcome = "none"

\* AnalysisPipeline(): the services are built, OllamaService._initialize
\* has found the service or not
PipelineInit == \E client \in BOOLEAN : PipelineIdle(client)

\* the state after construction: no call is running and the store is empty
Init == PipelineInit /\ RouterInit(<<>>) /\ ServicesIdle /\ ClustererInit

\* the state after the import of the router: the store is empty (the router
\* builds no AnalysisPipeline)
InitApi ==
    PipelineIdle(FALSE) /\ RouterInit(<<>>) /\ ServicesIdle /\ ClustererInit

\* the retrieval handlers take the module-level store as their input: they
\* are run from every content of it
InitStore ==
    /\ PipelineIdle(FALSE) /\ ServicesIdle /\ ClustererInit
    /\ \E c \in StoreContents : RouterInit(c)

\* ------------------------------------------- AnalysisPipeline.analyze
\* the result object of the running call
Res == result[1]

\* assignments `result.f = v` for the fields f of upd
WriteFields(upd) ==
    result' = Some([f \in DOMAIN Res |->
                      IF f \in DOMAIN upd THEN upd[f] ELSE Res[f]])

\* an exception that is noted while the run goes on to the insight stage
RaiseAndGoOn(s, m) ==
    /\ exc' = Some(m)
    /\ failed' = s
    /\ pc' = "insight"

\* an exception with message m leaves the try body at stage s
Raise(s, m) ==
    /\ exc' = Some(m)
    /\ failed' = s
    /\ pc' = "except_status"

\* lines 37-45: the start time is taken and the result object is built,
\* before the try block is entered
Analyze(text, analysis_id, parameters) ==
    /\ pc = "idle"
    /\ args' = [text |-> text, analysis_id |-> analysis_id,
                parameters |-> parameters]
    /\ \E now \in Times :
         /\ start_timestamp' = now
         /\ IF StrValid(analysis_id)
            THEN /\ result' = Some(AnalysisResult(analysis_id, now, "processing"))
                 /\ pc' = "normalize"
                 /\ exc' = None
            ELSE /\ result' = None
                 /\ pc' = "raised"
                 /\ exc' = Some("validation error")
    /\ ai_insights' = None
    /\ done' = {}
    /\ failed' = "none"
    /\ insight_outcome' = "none"
    /\ UNCHANGED <<rvars, svars, ollama_client, rvars>>

\* a hard stage: it completes and its payload is assigned, or it raises
HardStage(s, next, upd) ==
    /\ pc = s
    /\ \/ /\ WriteFields(upd)
          /\ done' = done \cup {s}
          /\ pc' = next
          /\ UNCHANGED <<exc, failed>>
       \/ /\ \E m \in ExceptionMessages : Raise(s, m)
          /\ UNCHANGED <<result, done>>
    /\ UNCHANGED <<rvars, svars, ollama_client, args, start_timestamp, ai_insights,
                   insight_outcome>>

\* line 52: clean_text(text); re.sub raises TypeError on a text that is no str
Normalize ==
    /\ pc = "normalize"
    /\ IF StrValid(args.text)
       THEN HardStage("normalize", "statistics", <<>>)
       ELSE /\ Raise("normalize", "expected string or bytes-like object")
            /\ UNCHANGED <<rvars, svars, ollama_client, args, start_timestamp, result,
                           ai_insights, done, insight_outcome>>

\* lines 53-54
Statistics ==
    HardStage("statistics", "keyness",
              [textStatistics |-> Some([type |-> "TextStatistics"])])

\* lines 56-79: the measured keyness_time is stored in the payload
Keyness ==
    HardStage("keyness", "clustering",
              [keyness |-> Some([type |-> "KeynessResult",
                                 processing_time_ms |-> Some("keyness_time")])])

\* the cluster payloads assigned before the statement that raises
ClusteringEarlyWrite ==
    /\ pc = "clustering"
    /\ WriteFields([semanticClustering |->
                        Some([type |-> "SemanticClusteringResult",
                              processing_time_ms |-> Some("clustering_time")]),
                    semanticClusters |-> Some([type |-> "SemanticCluster list"])])
    /\ \/ /\ done' = done \cup {"clustering"}
          /\ pc' = "sentiment"
          /\ UNCHANGED <<exc, failed>>
       \/ /\ \E m \in ExceptionMessages : Raise("clustering", m)
          /\ UNCHANGED done
    /\ UNCHANGED <<rvars, svars, ollama_client, args, start_timestamp, ai_insights,
                   insight_outcome>>

\* lines 81-115: the measured clustering_time is stored in the payload
Clustering ==
    HardStage("clustering", "sentiment",
              [semanticClustering |->
                   Some([type |-> "SemanticClusteringResult",
                         processing_time_ms |-> Some("clustering_time")]),
               semanticClusters |-> Some([type |-> "SemanticCluster list"])])

\* the sentiment stage without the assignment of its payload
SentimentNotAssigned == HardStage("sentiment", "insight", <<>>)

\* lines 117-132: SentimentResult is built without the measured sentiment_time
Sentiment ==
    HardStage("sentiment", "insight",
              [sentiment |-> Some([type |-> "SentimentResult"])])

\* what ollama_service.analyze_themes can do when it is called
InsightOutcomes == {"value", "nothing", "raised"}

\* the insight stage without its own try/except
InsightsNoBoundary ==
    /\ pc = "insight"
    /\ \E o \in InsightOutcomes :
         /\ insight_outcome' = IF ollama_client THEN o ELSE "unavailable"
         /\ ai_insights' = IF ollama_client /\ o = "value"
                           THEN Some([ai_insights |-> "response",
                                      model |-> "llama3.2:1b"])
                           ELSE None
         /\ IF insight_outcome' = "raised"
            THEN /\ Raise("insight", "stage error")
                 /\ UNCHANGED <<result, done>>
            ELSE /\ WriteFields([aiInsights |-> ai_insights'])
                 /\ done' = done \cup {"insight"}
                 /\ pc' = "finalize"
                 /\ UNCHANGED <<exc, failed>>
    /\ UNCHANGED <<rvars, svars, ollama_client, args, start_timestamp>>

\* lines 134-151: the insight stage inside its own try/except
Insights ==
    /\ pc = "insight"
    /\ \E o \in InsightOutcomes :
         /\ insight_outcome' = IF ollama_client THEN o ELSE "unavailable"
         /\ ai_insights' = IF ollama_client /\ o = "value"
                           THEN Some([ai_insights |-> "response",
                                      model |-> "llama3.2:1b"])
                           ELSE None
    /\ WriteFields([aiInsights |-> ai_insights'])
    /\ done' = IF insight_outcome' = "raised" THEN done ELSE done \cup {"insight"}
    /\ pc' = "finalize"
    /\ UNCHANGED <<rvars, svars, ollama_client, args, start_timestamp, exc, failed>>

\* model_versions with the 'ollama' entry in every run
ModelVersionsAlways == {"spacy", "ollama"}

\* lines 157-162: model_versions
ModelVersions == {"spacy"} \cup (IF ai_insights # None THEN {"ollama"} ELSE {})

\* lines 153-171: the metadata of a successful run; len(text.encode('utf-8'))
\* and the validation of ProcessingMetadata can raise
Finalize ==
    /\ pc = "finalize"
    /\ IF Utf8Encodable(args.text) /\ DictValid(ParametersOrEmpty(args.parameters))
       THEN /\ \E now \in Times :
                 /\ now >= start_timestamp
                 /\ WriteFields([metadata |-> Some(ProcessingMetadata(
                        start_timestamp, now, Some("len(text)"),
                        Some(ModelVersions),
                        ParametersOrEmpty(args.parameters)))])
            /\ pc' = "complete"
            /\ UNCHANGED <<exc, failed>>
       ELSE /\ Raise("finalize", IF Utf8Encodable(args.text)
                                 THEN "validation error"
                                 ELSE "codec can't encode character")
            /\ UNCHANGED result
    /\ UNCHANGED <<rvars, svars, ollama_client, args, start_timestamp, ai_insights, done,
                   insight_outcome>>

\* lines 173-177
Complete ==
    /\ pc = "complete"
    /\ WriteFields([status |-> "completed"])
    /\ pc' = "returned"
    /\ UNCHANGED <<rvars, svars, ollama_client, args, start_timestamp, exc, ai_insights,
                   done, failed, insight_outcome>>

\* lines 179-183
ExceptStatus ==
    /\ pc = "except_status"
    /\ WriteFields([status |-> "failed"])
    /\ pc' = "except_message"
    /\ UNCHANGED <<rvars, svars, ollama_client, args, start_timestamp, exc, ai_insights,
                   done, failed, insight_outcome>>

\* line 184: error_message = str(e)
ExceptMessage ==
    /\ pc = "except_message"
    /\ WriteFields([error_message |-> Some(exc[1])])
    /\ pc' = "except_metadata"
    /\ UNCHANGED <<rvars, svars, ollama_client, args, start_timestamp, exc, ai_insights,
                   done, failed, insight_outcome>>

\* lines 185-192: the metadata of a failed run is built inside the handler,
\* so a validation error of ProcessingMetadata leaves analyze
ExceptMetadata ==
    /\ pc = "except_metadata"
    /\ IF DictValid(ParametersOrEmpty(args.parameters))
       THEN /\ \E now \in Times :
                 /\ now >= start_timestamp
                 /\ WriteFields([metadata |-> Some(ProcessingMetadata(
                        start_timestamp, now, None, None,
                        ParametersOrEmpty(args.parameters)))])
            /\ pc' = "returned"
            /\ UNCHANGED exc
       ELSE /\ exc' = Some("validation error")
            /\ pc' = "raised"
            /\ UNCHANGED result
    /\ UNCHANGED <<rvars, svars, ollama_client, args, start_timestamp, ai_insights, done,
                   failed, insight_outcome>>

\* the caller has taken the outcome of the call; the next call can start
Return ==
    /\ pc \in {"returned", "raised"}
    /\ pc' = "idle"
    /\ args' = NoArgs
    /\ start_timestamp' = 0
    /\ result' = None
    /\ exc' = None
    /\ ai_insights' = None
    /\ done' = {}
    /\ failed' = "none"
    /\ insight_outcome' = "none"
    /\ UNCHANGED <<rvars, svars, ollama_client, rvars>>

\* --------------------------------------------------- analysis_router.py
\* pydantic: the fields of a model that have no default
RequiredFields(model) ==
    CASE model = "AnalysisResult" -> {"id", "timestamp", "status"}
      [] model = "KeynessResult" -> {"keywords", "total_keywords"}
      [] model = "KeywordItem" -> {"word", "score", "frequency", "rank"}
      [] model = "SemanticCluster" -> {"id", "label", "words", "size"}
      [] model = "SentimentResult" -> {"overall", "positive", "negative", "neutral"}

\* pydantic: the construction model(**supplied) passes validation
Validates(model, supplied) == RequiredFields(model) \subseteq supplied

\* the keys of the dicts the services return
KeynessKeys == {"word", "score", "raw_score", "effect_size", "frequency",
                "sentiment", "confidence"}

ClusterKeys == {"id", "label", "words", "size"}

SentimentKeys == {"overall", "positive", "negative", "neutral"}

\* lines 108-117 of analyze_text_internal: the result object is built;
\* KeywordItem(**k) is evaluated only for a non-empty keyword list
BuildsResult(has_keywords) ==
    /\ has_keywords => Validates("KeywordItem", KeynessKeys)
    /\ Validates("KeynessResult", {"keywords"})
    /\ Validates("SemanticCluster", ClusterKeys)
    /\ Validates("SentimentResult", SentimentKeys)
    /\ Validates("AnalysisResult", {"id", "timestamp", "keyness",
                                    "semanticClusters", "sentiment", "aiInsights"})

\* json.dumps(result.dict(), indent=2)
JsonDumps(res) == <<"json", res>>

Response(code, body) == [code |-> code, body |-> body]

\* a request arrives: GET /results/{id}, GET /download/{id} or POST /analyze
Request(r, kind, id) ==
    /\ req[r] = FreeSlot
    /\ kind = "analyze" => (id = 0 /\ issued # Ids)
    /\ kind # "analyze" => id \in Ids
    /\ req' = [req EXCEPT ![r] = [FreeSlot EXCEPT !.kind = kind, !.id = id,
                                                 !.pc = "start"]]
    /\ UNCHANGED <<pvars, svars, temp_files, analysis_cache, issued, downloads, last_get>>

\* request r ends with response rsp
Finish(r, rsp) ==
    req' = [req EXCEPT ![r].pc = "done", ![r].resp = rsp]

\* get_results that takes the entry out of the store as it returns it
GetResultsPop(r) ==
    /\ req[r].kind = "get" /\ req[r].pc = "start"
    /\ LET id == req[r].id
           rsp == IF id \notin DOMAIN analysis_cache
                  THEN Response(404, None)
                  ELSE Response(200, Some(<<"object", analysis_cache[id]>>))
       IN /\ Finish(r, rsp)
          /\ last_get' = [last_get EXCEPT ![id] = Some(rsp)]
          /\ analysis_cache' = [i \in DOMAIN analysis_cache \ {id} |->
                                   analysis_cache[i]]
    /\ UNCHANGED <<pvars, svars, temp_files, issued, downloads>>

\* get_results, lines 128-133. The handler is `async def` and holds no
\* await, so the event loop runs it from the membership check to the return
\* without running any other handler in between.
GetResults(r) ==
    /\ req[r].kind = "get" /\ req[r].pc = "start"
    /\ LET id == req[r].id
           rsp == IF id \notin DOMAIN analysis_cache
                  THEN Response(404, None)
                  ELSE Response(200, Some(<<"object", analysis_cache[id]>>))
       IN /\ Finish(r, rsp)
          /\ last_get' = [last_get EXCEPT ![id] = Some(rsp)]
    /\ UNCHANGED <<pvars, svars, temp_files, analysis_cache, issued, downloads>>

\* download_results without the `del analysis_cache[analysis_id]`
DownloadResultsNoEvict(r) ==
    /\ req[r].kind = "consume" /\ req[r].pc = "start"
    /\ LET id == req[r].id
       IN IF id \notin DOMAIN analysis_cache
          THEN /\ Finish(r, Response(404, None))
               /\ UNCHANGED <<downloads, last_get>>
          ELSE LET json_content == JsonDumps(analysis_cache[id])
               IN /\ req' = [req EXCEPT ![r].pc = "done",
                                        ![r].json_content = Some(json_content),
                                        ![r].resp = Response(200, Some(json_content))]
                  /\ downloads' = [downloads EXCEPT ![id] = IF @ < 2 THEN @ + 1 ELSE @]
                  /\ last_get' = [last_get EXCEPT ![id] = None]
    /\ UNCHANGED <<pvars, svars, temp_files, analysis_cache, issued>>

\* download_results run statement by statement with the event loop free to
\* run another handler between the check, the read and the eviction (what a
\* handler that is suspended, or run on a thread pool, would do); an id that
\* is gone at the read or at the eviction is a KeyError (HTTP 500)
DownloadResultsInterleaved(r) ==
    /\ req[r].kind = "consume"
    /\ LET id == req[r].id
       IN \/ /\ req[r].pc = "start"
             /\ IF id \notin DOMAIN analysis_cache
                THEN Finish(r, Response(404, None))
                ELSE req' = [req EXCEPT ![r].pc = "read"]
             /\ UNCHANGED <<analysis_cache, downloads, last_get>>
          \/ /\ req[r].pc = "read"
             /\ IF id \notin DOMAIN analysis_cache
                THEN Finish(r, Response(500, None))
                ELSE req' = [req EXCEPT ![r].pc = "evict",
                               ![r].json_content = Some(JsonDumps(analysis_cache[id]))]
             /\ UNCHANGED <<analysis_cache, downloads, last_get>>
          \/ /\ req[r].pc = "evict"
             /\ IF id \notin DOMAIN analysis_cache
                THEN /\ Finish(r, Response(500, None))
                     /\ UNCHANGED <<analysis_cache, downloads, last_get>>
                ELSE /\ analysis_cache' = [i \in DOMAIN analysis_cache \ {id} |->
                                              analysis_cache[i]]
                     /\ Finish(r, Response(200, req[r].json_content))
                     /\ downloads' = [downloads EXCEPT ![id] = IF @ < 2 THEN @ + 1 ELSE @]
                     /\ last_get' = [last_get EXCEPT ![id] = None]
    /\ UNCHANGED <<pvars, svars, temp_files, issued>>

\* download_results without the membership check: the read of an id that is
\* not in the store is a KeyError (HTTP 500)
DownloadResultsNoCheck(r) ==
    /\ req[r].kind = "consume" /\ req[r].pc = "start"
    /\ LET id == req[r].id
       IN IF id \notin DOMAIN analysis_cache
          THEN /\ Finish(r, Response(500, None))
               /\ UNCHANGED <<analysis_cache, downloads, last_get>>
          ELSE LET json_content == JsonDumps(analysis_cache[id])
               IN /\ analysis_cache' = [i \in DOMAIN analysis_cache \ {id} |->
                                           analysis_cache[i]]
                  /\ req' = [req EXCEPT ![r].pc = "done",
                                        ![r].json_content = Some(json_content),
                                        ![r].resp = Response(200, Some(json_content))]
                  /\ downloads' = [downloads EXCEPT ![id] = IF @ < 2 THEN @ + 1 ELSE @]
                  /\ last_get' = [last_get EXCEPT ![id] = None]
    /\ UNCHANGED <<pvars, svars, temp_files, issued>>

\* download_results, lines 136-156: membership check, read, conversion to
\* JSON, eviction and response. The handler is `async def` and holds no
\* await, so the event loop runs all of it in one piece.
DownloadResults(r) ==
    /\ req[r].kind = "consume" /\ req[r].pc = "start"
    /\ LET id == req[r].id
       IN IF id \notin DOMAIN analysis_cache
          THEN /\ Finish(r, Response(404, None))
               /\ UNCHANGED <<analysis_cache, downloads, last_get>>
          ELSE LET json_content == JsonDumps(analysis_cache[id])
               IN /\ analysis_cache' = [i \in DOMAIN analysis_cache \ {id} |->
                                           analysis_cache[i]]
                  /\ req' = [req EXCEPT ![r].pc = "done",
                                        ![r].json_content = Some(json_content),
                                        ![r].resp = Response(200, Some(json_content))]
                  /\ downloads' = [downloads EXCEPT ![id] = IF @ < 2 THEN @ + 1 ELSE @]
                  /\ last_get' = [last_get EXCEPT ![id] = None]
    /\ UNCHANGED <<pvars, svars, temp_files, issued>>

\* str(uuid.uuid4()): an id that no request was given before; the ids are
\* handed out in increasing order
Uuid4 == CHOOSE id \in Ids \ issued : \A other \in Ids \ issued : id <= other

\* the stages of analyze_text_internal that are outside every try block
RouterStages == {"keyness", "clustering", "sentiment"}

\* analyze_text_internal, lines 83-126: the exception that leaves it, or
\* "none" when it returns. Only the insight call is inside a try block, so
\* an exception of a stage (fault) or of the construction of the result
\* object leaves the function.
AnalyzeTextInternal(fault, has_keywords) ==
    IF fault # "none" THEN "StageError"
    ELSE IF BuildsResult(has_keywords) THEN "none"
    ELSE "ValidationError"

\* every way analyze_text_internal can end: for each stage that can raise
\* and for an empty and a non-empty keyword list
InternalOutcomes ==
    {AnalyzeTextInternal(fault, has_keywords) :
        fault \in RouterStages \cup {"none"}, has_keywords \in BOOLEAN}

\* request r ends with an exception: an HTTPException carries its status
\* code, any other exception is answered with HTTP 500
Fail(r, code, exception) ==
    req' = [req EXCEPT ![r].pc = "done", ![r].resp = Response(code, None),
                       ![r].error = Some(exception),
                       ![r].analysis_id = None, ![r].file_path = None]

\* line 122: analysis_cache[analysis_id] = result
Store(id, res) ==
    analysis_cache' = [i \in DOMAIN analysis_cache \cup {id} |->
                          IF i = id THEN res ELSE analysis_cache[i]]

\* line 94 with semantic_clustering.py lines 20-30: create_clusters fits the
\* shared vectorizer and PCA on the sentences of the request and reads the
\* feature names of that fit (fitted), or fit_transform raises on an empty
\* vocabulary and leaves the previous fit in place; a stage that raises
\* before create_clusters leaves it in place too
Fit(r, fitted) == vectorizer' = IF fitted THEN r ELSE vectorizer

\* analyze_text run with the event loop free to run another handler between
\* the fit of the shared vectorizer and the use of its feature names (what a
\* handler that awaits inside the analysis, or runs on a thread pool, would
\* do)
AnalyzeTextInterleaved(r) ==
    /\ req[r].kind = "analyze"
    /\ \/ /\ req[r].pc = "start"
          /\ issued # Ids
          /\ issued' = issued \cup {Uuid4}
          /\ req' = [req EXCEPT ![r].pc = "clustering",
                                ![r].analysis_id = Some(Uuid4)]
          /\ Fit(r, TRUE)
          /\ UNCHANGED analysis_cache
       \/ /\ req[r].pc = "clustering"
          /\ \E raised \in InternalOutcomes :
               LET id == req[r].analysis_id[1]
                   res == AnalysisResult(<<"str", id>>, 0, "completed")
               IN IF raised = "none"
                  THEN /\ Store(id, res)
                       /\ req' = [req EXCEPT ![r].pc = "done", ![r].id = id,
                                     ![r].analysis_id = None,
                                     ![r].resp = Response(200, Some(<<"object", res>>))]
                  ELSE /\ Fail(r, 500, raised)
                       /\ UNCHANGED analysis_cache
          /\ UNCHANGED <<issued, vectorizer>>
    /\ UNCHANGED <<pvars, svc, temp_files, downloads, last_get>>

\* analyze_text, lines 76-81, with analyze_text_internal, lines 83-126: a
\* fresh id; the stages; the result object is built, stored under the id and
\* returned. An exception of a stage or of the construction leaves the
\* handler (HTTP 500). analyze_text_internal holds no await, so the event
\* loop runs it from its first statement to its end in one piece.
AnalyzeText(r) ==
    /\ req[r].kind = "analyze" /\ req[r].pc = "start"
    /\ issued # Ids
    /\ \E raised \in InternalOutcomes, fitted \in BOOLEAN :
         LET id == Uuid4
             res == AnalysisResult(<<"str", id>>, 0, "completed")
         IN /\ issued' = issued \cup {id}
            /\ Fit(r, fitted)
            /\ IF raised = "none"
               THEN /\ Store(id, res)
                    /\ req' = [req EXCEPT ![r].pc = "done", ![r].id = id,
                                  ![r].resp = Response(200, Some(<<"object", res>>))]
               ELSE /\ Fail(r, 500, raised)
                    /\ UNCHANGED analysis_cache
    /\ UNCHANGED <<pvars, svc, temp_files, downloads, last_get>>

\* the file names of an upload: ending in .txt or not
Filenames == {"txt", "other"}

\* POST /upload arrives
UploadRequest(r, filename) ==
    /\ req[r] = FreeSlot
    /\ filename = "txt" => issued # Ids
    /\ req' = [req EXCEPT ![r] = [FreeSlot EXCEPT !.kind = "upload", !.pc = "start",
                                                 !.filename = filename]]
    /\ UNCHANGED <<pvars, svars, temp_files, analysis_cache, issued, downloads, last_get>>

\* upload_file without the test of the file name
UploadFileNoCheck(r) ==
    /\ req[r].kind = "upload" /\ req[r].pc = "start"
    /\ issued # Ids
    /\ issued' = issued \cup {Uuid4}
    /\ \E too_large \in BOOLEAN :
         IF too_large
         THEN Fail(r, 413, "HTTPException")
         ELSE req' = [req EXCEPT ![r].pc = "saving",
                                 ![r].analysis_id = Some(Uuid4),
                                 ![r].file_path = Some(Uuid4)]
    /\ UNCHANGED <<pvars, svars, temp_files, analysis_cache, downloads, last_get>>

\* upload_file, lines 36-49, with save_temp_file up to its first await
\* (file_handler.py lines 22-40): the file name is tested, the ids are
\* generated, a file whose declared size is over the limit is refused
UploadFile(r) ==
    /\ req[r].kind = "upload" /\ req[r].pc = "start"
    /\ IF req[r].filename # "txt"
       THEN /\ Fail(r, 400, "HTTPException")
            /\ UNCHANGED issued
       ELSE /\ issued # Ids
            /\ issued' = issued \cup {Uuid4}
            /\ \E too_large \in BOOLEAN :
                 IF too_large
                 THEN Fail(r, 413, "HTTPException")
                 ELSE req' = [req EXCEPT ![r].pc = "saving",
                                         ![r].analysis_id = Some(Uuid4),
                                         ![r].file_path = Some(Uuid4)]
    /\ UNCHANGED <<pvars, svars, temp_files, analysis_cache, downloads, last_get>>

\* what the writing of the temporary file can do
SaveOutcomes == {"saved", "too_large", "io_error"}

\* save_temp_file resumed, file_handler.py lines 40-80: the file is written
\* and its path returned, or it is removed again and an HTTPException
\* raised; then read_temp_file up to its await (lines 82-89)
UploadSave(r) ==
    /\ req[r].kind = "upload" /\ req[r].pc = "saving"
    /\ \E o \in SaveOutcomes :
         CASE o = "saved" -> /\ temp_files' = temp_files \cup {req[r].file_path[1]}
                             /\ req' = [req EXCEPT ![r].pc = "reading"]
           [] o = "too_large" -> /\ Fail(r, 413, "HTTPException")
                                 /\ temp_files' = temp_files \ {req[r].file_path[1]}
           [] o = "io_error" -> /\ Fail(r, 500, "HTTPException")
                                /\ temp_files' = temp_files \ {req[r].file_path[1]}
    /\ UNCHANGED <<pvars, svars, analysis_cache, issued, downloads, last_get>>

\* what the reading of the temporary file can do
ReadOutcomes == {"content", "decode_error", "io_error"}

\* upload_file resumed, lines 52-68: read_temp_file returns the text or
\* raises an HTTPException (file_handler.py lines 89-107); then
\* analyze_text_internal runs, the result is stored and the deletion of the
\* temporary file is scheduled as a background task
UploadRead(r) ==
    /\ req[r].kind = "upload" /\ req[r].pc = "reading"
    /\ \E o \in ReadOutcomes, raised \in InternalOutcomes, fitted \in BOOLEAN :
         LET id == req[r].analysis_id[1]
             res == AnalysisResult(<<"str", id>>, 0, "completed")
         IN CASE o = "decode_error" -> /\ Fail(r, 400, "HTTPException")
                                       /\ UNCHANGED <<analysis_cache, vectorizer>>
              [] o = "io_error" -> /\ Fail(r, 500, "HTTPException")
                                   /\ UNCHANGED <<analysis_cache, vectorizer>>
              [] o = "content" /\ raised # "none" ->
                     /\ Fail(r, 500, raised)
                     /\ Fit(r, fitted)
                     /\ UNCHANGED analysis_cache
              [] OTHER ->
                     /\ Store(id, res)
                     /\ Fit(r, fitted)
                     /\ req' = [req EXCEPT ![r].pc = "done", ![r].id = id,
                                   ![r].resp = Response(200, Some(<<"analysisId", id>>)),
                                   ![r].background = req[r].file_path,
                                   ![r].analysis_id = None,
                                   ![r].file_path = None]
    /\ UNCHANGED <<pvars, svc, temp_files, issued, downloads, last_get>>

\* the response of request r has been sent and its background task
\* (file_handler.delete_temp_file, lines 122-132) has run; its slot is free
\* again
Respond(r) ==
    /\ req[r].pc = "done"
    /\ req' = [req EXCEPT ![r] = FreeSlot]
    /\ temp_files' = IF req[r].background = None THEN temp_files
                     ELSE temp_files \ {req[r].background[1]}
    /\ vectorizer' = IF vectorizer = r THEN 0 ELSE vectorizer
    /\ UNCHANGED <<pvars, svc, analysis_cache, issued, downloads, last_get>>

RequestKinds == {"get", "consume", "analyze"}

NextApi ==
    \/ \E r \in Req, k \in RequestKinds, i \in Ids \cup {0} : Request(r, k, i)
    \/ \E r \in Req, f \in Filenames : UploadRequest(r, f)
    \/ \E r \in Req : GetResults(r)
    \/ \E r \in Req : DownloadResults(r)
    \/ \E r \in Req : AnalyzeText(r)
    \/ \E r \in Req : UploadFile(r)
    \/ \E r \in Req : UploadSave(r)
    \/ \E r \in Req : UploadRead(r)
    \/ \E r \in Req : Respond(r)


\* ------------------------------------------------- the service methods
\* what a call does: it returns a value or raises an exception
Returns(v) == [kind |-> "return", value |-> v]

Raises(e) == [kind |-> "raise", value |-> e]

\* `try: body  except Exception: return None`
ExceptReturnNone(body) == IF body.kind = "raise" THEN Returns(None) ELSE body

\* method fn is called with args and ends with out
Call(fn, arguments, out) ==
    /\ svc = NoCall
    /\ svc' = [fn |-> fn, args |-> arguments, out |-> out]
    /\ UNCHANGED <<pvars, rvars, vectorizer>>

\* the caller has taken the outcome of the call
ServiceReturn ==
    /\ svc # NoCall
    /\ svc' = NoCall
    /\ UNCHANGED <<pvars, rvars, vectorizer>>

\* ------------------------------------------ OllamaService.analyze_themes
\* a cluster dict handed to analyze_themes: well-formed, without the key
\* 'label', or with a 'words' value that cannot be sliced
ClusterDicts == {"ok", "no_label", "words_none"}

\* the clusters argument: None, or a list of at most MaxClusterList dicts
ClusterLists ==
    {NoneType} \cup UNION {[1..n -> ClusterDicts] : n \in 0..MaxClusterList}

\* what self.client.generate can do: a response with the key 'response', a
\* response without it, a connection error, a timeout of the HTTP client
GenerateOutcomes == {"response", "no_response_key", "connection_error", "timeout"}

\* clusters[:5]
SummaryClusters == 5

\* lines 37-40: the cluster summary is built of the first five clusters
ClusterSummary(clusters) ==
    IF clusters = NoneType THEN Raises("TypeError")
    ELSE LET n == IF Len(clusters) < SummaryClusters THEN Len(clusters)
                  ELSE SummaryClusters
             bad == {i \in 1..n : clusters[i] # "ok"}
         IN IF bad = {} THEN Returns(<<"summary", n>>)
            ELSE LET first == CHOOSE i \in bad : \A j \in bad : i <= j
                 IN Raises(IF clusters[first] = "no_label" THEN "KeyError"
                           ELSE "TypeError")

\* lines 42-55: the prompt holds text[:500]
Prompt(text, summary) ==
    IF text[1] # "str" THEN Raises("TypeError") ELSE Returns(<<"prompt", summary>>)

\* lines 57-69: generate is called and the result dict built
GenerateResult(outcome) ==
    CASE outcome = "response" ->
             Returns(Some([ai_insights |-> "response", model |-> "llama3.2:1b"]))
      [] outcome = "no_response_key" -> Raises("KeyError")
      [] outcome = "connection_error" -> Raises("ConnectionError")
      [] outcome = "timeout" -> Raises("TimeoutException")

\* lines 36-69, the body of the try block: the first statement that raises
\* ends it
ThemesBody(text, clusters, outcome) ==
    LET summary == ClusterSummary(clusters)
    IN IF summary.kind = "raise" THEN summary
       ELSE LET prompt == Prompt(text, summary.value)
            IN IF prompt.kind = "raise" THEN prompt
               ELSE GenerateResult(outcome)

\* analyze_themes with the cluster summary built before the try block
AnalyzeThemesSummaryOutside(client, text, clusters, outcome) ==
    IF ~client THEN Returns(None)
    ELSE IF ClusterSummary(clusters).kind = "raise" THEN ClusterSummary(clusters)
    ELSE ExceptReturnNone(ThemesBody(text, clusters, outcome))

\* analyze_themes, lines 30-73
AnalyzeThemes(client, text, clusters, outcome) ==
    IF ~client THEN Returns(None)
    ELSE ExceptReturnNone(ThemesBody(text, clusters, outcome))

CallAnalyzeThemes ==
    /\ ServicesIdle
    /\ \E client \in BOOLEAN, text \in {<<"str", "plain">>, NoneType},
          clusters \in ClusterLists, outcome \in GenerateOutcomes :
           Call("analyze_themes",
                [client |-> client, text |-> text, clusters |-> clusters,
                 outcome |-> outcome],
                AnalyzeThemes(client, text, clusters, outcome))

\* ------------------------------------ KeynessAnalyzer.calculate_keyness
\* The text is given by its word table (Counter(words)): one entry per
\* distinct word, in the order of first occurrence, with the frequency of the
\* word and what the lexicons and context patterns say about it:
\* "positive" (positive_indicators or a positive context), "negative",
\* "both", "neutral", or "stop" (a stop word or a word under 3 letters).
Lexicons == {"positive", "negative", "both", "neutral", "stop"}

\* n entries of one kind and frequency
RECURSIVE Block(_, _, _)
Block(lexicon, freq, n) ==
    IF n = 0 THEN <<>>
    ELSE <<[freq |-> freq, lexicon |-> lexicon]>> \o Block(lexicon, freq, n - 1)

Reverse(s) == [i \in 1..Len(s) |-> s[Len(s) + 1 - i]]

\* the entries numbered in their order: the number stands for the word
Numbered(s) ==
    [i \in 1..Len(s) |-> [word |-> i, freq |-> s[i].freq, lexicon |-> s[i].lexicon]]

\* a word table: p2 positive and n2 negative words occurring twice, p3
\* positive and n3 negative words occurring three times and, when extra, one
\* word of each kind that the analyzer has to skip or to classify by order
WordTable(p2, n2, p3, n3, extra, reversed) ==
    LET skipped == IF extra
                   THEN <<[freq |-> 1, lexicon |-> "positive"],
                          [freq |-> 2, lexicon |-> "neutral"],
                          [freq |-> 3, lexicon |-> "stop"],
                          [freq |-> 2, lexicon |-> "both"]>>
                   ELSE <<>>
        t == skipped \o Block("positive", 2, p2) \o Block("negative", 2, n2)
                \o Block("positive", 3, p3) \o Block("negative", 3, n3)
    IN Numbered(IF reversed THEN Reverse(t) ELSE t)

\* a word table in which every word occurs once: stop words, p words of
\* positive_indicators and n words of negative_indicators ("ai helps students
\* learn better but raises privacy concerns" is such a table, with p = 1 and
\* n = 2)
HapaxTable(p, n) ==
    Numbered(Block("stop", 1, 2) \o Block("neutral", 1, 1)
                \o Block("positive", 1, p) \o Block("stop", 1, 1)
                \o Block("neutral", 1, 1) \o Block("negative", 1, n))

WordTables ==
    {WordTable(p2, n2, p3, n3, extra, reversed) :
        p2 \in 0..MaxWords, n2 \in 0..MaxWords, p3 \in 0..MaxFrequent,
        n3 \in 0..MaxFrequent, extra \in BOOLEAN, reversed \in BOOLEAN}
    \cup {HapaxTable(p, n) : p \in 0..MaxFrequent, n \in 0..MaxFrequent}

\* the reference_freq argument: None (the default), an empty table, and a
\* table that gives a word that is not in the text (word 0) a relative
\* frequency of 0.07, as _get_default_frequencies gives 'the'
ReferenceTables == {NoneType, <<"dict", "empty">>, <<"dict", "underused">>}

RECURSIVE SumFreq(_)
SumFreq(t) == IF t = <<>> THEN 0 ELSE Head(t).freq + SumFreq(Tail(t))

Abs(x) == IF x < 0 THEN -x ELSE x

\* s[:n]
Take(s, n) == IF Len(s) <= n THEN s ELSE SubSeq(s, 1, n)

\* lines 66-79: the sentiment of a word, or "skip"
Classify(e) ==
    IF e.freq < 2 \/ e.lexicon = "stop" THEN "skip"
    ELSE IF e.lexicon \in {"positive", "both"} THEN "positive"
    ELSE IF e.lexicon = "negative" THEN "negative"
    ELSE "skip"

\* lines 69-89: the dict of a kept word. relative_freq = freq / total_words;
\* effect_size = +-(relative_freq * freq * 15) and score = abs(effect_size)
\* are held in units of 1 / total_words, the same unit for all the words of
\* one call; confident: relative_freq * 20 >= 0.95
KeynessScore(e, total_words) ==
    LET effect_size == IF Classify(e) = "positive" THEN 15 * e.freq * e.freq
                       ELSE -(15 * e.freq * e.freq)
    IN [word |-> e.word, score |-> Abs(effect_size), raw_score |-> effect_size,
        effect_size |-> effect_size, frequency |-> e.freq,
        sentiment |-> Classify(e),
        confident |-> 20 * e.freq * 100 >= 95 * total_words]

RECURSIVE KeynessScores(_, _)
KeynessScores(t, total_words) ==
    IF t = <<>> THEN <<>>
    ELSE (IF Classify(Head(t)) = "skip" THEN <<>>
          ELSE <<KeynessScore(Head(t), total_words)>>)
         \o KeynessScores(Tail(t), total_words)

\* sorted(scores, key=lambda x: x['score'], reverse=True): descending and
\* stable, items of equal score keep their order
RECURSIVE SortedByScore(_)
SortedByScore(scores) ==
    IF scores = <<>> THEN <<>>
    ELSE LET top == CHOOSE m \in {scores[i].score : i \in DOMAIN scores} :
                        \A i \in DOMAIN scores : scores[i].score <= m
         IN SelectSeq(scores, LAMBDA x : x.score = top)
               \o SortedByScore(SelectSeq(scores, LAMBDA x : x.score # top))

PositiveCap == 12

NegativeCap == 12

FinalCap == 20

\* calculate_keyness that returns the capped positive and negative lists
\* one after the other, without sorting them again
CalculateKeynessNoResort(t, reference_freq) ==
    IF SumFreq(t) = 0 THEN <<>>
    ELSE LET sorted_scores == SortedByScore(KeynessScores(t, SumFreq(t)))
             positive_scores ==
                 Take(SelectSeq(sorted_scores, LAMBDA x : x.effect_size > 0),
                      PositiveCap)
             negative_scores ==
                 Take(SelectSeq(sorted_scores, LAMBDA x : x.effect_size < 0),
                      NegativeCap)
         IN Take(positive_scores \o negative_scores, FinalCap)

\* calculate_keyness with one cap for both signs together
CalculateKeynessOneCap(t, reference_freq) ==
    IF SumFreq(t) = 0 THEN <<>>
    ELSE Take(SortedByScore(KeynessScores(t, SumFreq(t))), FinalCap)

\* calculate_keyness, lines 32-99; no statement reads reference_freq
CalculateKeyness(t, reference_freq) ==
    IF SumFreq(t) = 0 THEN <<>>
    ELSE LET sorted_scores == SortedByScore(KeynessScores(t, SumFreq(t)))
             positive_scores ==
                 Take(SelectSeq(sorted_scores, LAMBDA x : x.effect_size > 0),
                      PositiveCap)
             negative_scores ==
                 Take(SelectSeq(sorted_scores, LAMBDA x : x.effect_size < 0),
                      NegativeCap)
         IN Take(SortedByScore(positive_scores \o negative_scores), FinalCap)

\* analysis_pipeline.py lines 62-79: the KeynessResult built of the
\* analyzer's list, rank = position in the list
KeynessResult(keyness_data) ==
    [keywords |-> [i \in 1..Len(keyness_data) |->
                      [word |-> keyness_data[i].word,
                       score |-> keyness_data[i].score,
                       frequency |-> keyness_data[i].frequency,
                       rank |-> i,
                       effect_size |-> keyness_data[i].effect_size,
                       confident |-> keyness_data[i].confident]],
     total_keywords |-> Len(keyness_data),
     reference_corpus |-> "general_english"]

CallCalculateKeyness ==
    /\ ServicesIdle
    /\ \E t \in WordTables, reference_freq \in ReferenceTables :
           Call("calculate_keyness",
                [table |-> t, reference_freq |-> reference_freq],
                KeynessResult(CalculateKeyness(t, reference_freq)))

\* ----------------------------------- SemanticClusterer.create_clusters
\* The text is given by what create_clusters takes from it: the number of
\* qualifying sentences (_split_sentences, over 20 characters), the number of
\* features the TfidfVectorizer finds in them (0: only stop words), and the
\* number of unique words of text.lower().split(). KMeans is given by the
\* labels it assigns: sentence j gets label (j * seed) % n_clusters.
PcaComponents == 10

Min(a, b) == IF a < b THEN a ELSE b

Max(a, b) == IF a > b THEN a ELSE b

\* lines 16-17 with min written for max
ClampedClustersMin(sentences, n_clusters) ==
    IF sentences < n_clusters THEN Min(2, sentences \div 2) ELSE n_clusters

\* lines 16-17
ClampedClusters(sentences, n_clusters) ==
    IF sentences < n_clusters THEN Max(2, sentences \div 2) ELSE n_clusters

\* lines 22-23: tfidf_matrix.shape[0] is the number of sentences
KMeansClusters(sentences, n_clusters) ==
    LET clamped == ClampedClusters(sentences, n_clusters)
    IN IF sentences < clamped THEN sentences ELSE clamped

\* lines 20-27: fit_transform raises ValueError on an empty vocabulary, PCA
\* when n_components exceeds min(n_samples, n_features)
ClusteringRaises(sentences, features) ==
    \/ sentences = 0 \/ features = 0
    \/ PcaComponents > Min(sentences, features)

\* lines 32-43: one dict per cluster id, size = number of sentences with
\* that label
KMeansResults(sentences, k, seed) ==
    [c \in 1..k |->
        [id |-> c - 1, label |-> "Theme",
         size |-> Cardinality({j \in 1..sentences : (j * seed) % k = c - 1})]]

FallbackGroups == 5

FallbackGroupWords == 6

FallbackWords == 30

\* len(unique_words[i*6:(i+1)*6]) for unique_words of length n
SliceLen(n, i) == Max(0, Min(n, (i + 1) * FallbackGroupWords) - i * FallbackGroupWords)

\* _fallback_clusters, lines 70-82: five groups of up to six of the first 30
\* unique words; size is the number of words of the group
FallbackClusters(unique_words) ==
    [c \in 1..FallbackGroups |->
        [id |-> c - 1, label |-> "Group",
         size |-> SliceLen(Min(unique_words, FallbackWords), c - 1)]]

\* create_clusters, lines 13-47: the list returned, with the value of
\* n_clusters after line 17 (clamped) and at the end (n_clusters), and the
\* path taken
CreateClusters(sentences, features, unique_words, n_clusters, seed) ==
    IF ClusteringRaises(sentences, features)
    THEN [clusters |-> FallbackClusters(unique_words),
          clamped |-> ClampedClusters(sentences, n_clusters),
          n_clusters |-> IF sentences = 0 \/ features = 0
                         THEN ClampedClusters(sentences, n_clusters)
                         ELSE KMeansClusters(sentences, n_clusters),
          path |-> "fallback"]
    ELSE [clusters |-> KMeansResults(sentences,
                           KMeansClusters(sentences, n_clusters), seed),
          clamped |-> ClampedClusters(sentences, n_clusters),
          n_clusters |-> KMeansClusters(sentences, n_clusters),
          path |-> "kmeans"]

CallCreateClusters ==
    /\ ServicesIdle
    /\ \E sentences \in 0..MaxSentences, features \in 0..MaxFeatures,
          unique_words \in 0..MaxUniqueWords, n_clusters \in 1..MaxClusters,
          seed \in 0..MaxSeed :
           /\ sentences > 0 => unique_words > 0
           /\ features <= unique_words
           /\ Call("create_clusters",
                   [sentences |-> sentences, features |-> features,
                    unique_words |-> unique_words, n_clusters |-> n_clusters,
                    seed |-> seed],
                   CreateClusters(sentences, features, unique_words, n_clusters,
                                  seed))

\* ----------------------------------- SentimentAnalyzer.analyze_sentiment
\* The text is given by the polarity TextBlob finds for each of its
\* sentences and for the whole text, in hundredths (0.1 is 10): the values
\* on both sides of the two thresholds and the extremes.
Polarities == {-100, -11, -10, 0, 10, 11, 100}

SentenceLists == UNION {[1..n -> Polarities] : n \in 0..MaxSentimentSentences}

\* a / b as the fraction <<a, b>>; a zero denominator is ZeroDivisionError
DividesByZero(fractions) == \E i \in DOMAIN fractions : fractions[i][2] = 0

\* lines 14-21: the class of a sentence
SentimentClass(polarity) ==
    IF polarity > 10 THEN "positive"
    ELSE IF polarity < -10 THEN "negative"
    ELSE "neutral"

\* lines 9-21: the counter of one class after the loop
RECURSIVE CountClass(_, _)
CountClass(sentences, class) ==
    IF sentences = <<>> THEN 0
    ELSE (IF SentimentClass(Head(sentences)) = class THEN 1 ELSE 0)
         + CountClass(Tail(sentences), class)

\* lines 25-30: the percentages, as fractions count * 100 / total
SentimentDict(sentences, overall, total) ==
    LET fractions == <<<<CountClass(sentences, "positive") * 100, total>>,
                       <<CountClass(sentences, "negative") * 100, total>>,
                       <<CountClass(sentences, "neutral") * 100, total>>>>
    IN IF DividesByZero(fractions) THEN Raises("ZeroDivisionError")
       ELSE Returns([overall |-> overall, positive |-> fractions[1],
                     negative |-> fractions[2], neutral |-> fractions[3]])

\* analyze_sentiment with total = len(sentences)
AnalyzeSentimentNoFloor(sentences, overall) ==
    SentimentDict(sentences, overall, Len(sentences))

\* analyze_sentiment, lines 6-30; line 23: total = len(sentences) if
\* sentences else 1
AnalyzeSentiment(sentences, overall) ==
    SentimentDict(sentences, overall,
                  IF sentences # <<>> THEN Len(sentences) ELSE 1)

CallAnalyzeSentiment ==
    /\ ServicesIdle
    /\ \E sentences \in SentenceLists, overall \in Polarities :
           Call("analyze_sentiment",
                [sentences |-> sentences, overall |-> overall],
                AnalyzeSentiment(sentences, overall))

\* --------------------------- AnalysisPipeline._calculate_text_statistics
\* The texts are given by what the method takes from them: the words of
\* cleaned_text.split() (sequences of letters; "a", "e" and "A" are vowels,
\* "b" is a consonant), the number of non-blank parts of
\* original_text.split('.') and of original_text.split('\n\n').
StatWords == {<<"b">>, <<"e">>, <<"a">>, <<"A">>, <<"b", "e">>,
              <<"a", "b", "a">>, <<"a", "b", "a", "b", "a">>}

StatWordLists == UNION {[1..n -> StatWords] : n \in 0..MaxStatWords}

\* word.lower()
Lower(word) == [i \in DOMAIN word |-> IF word[i] = "A" THEN "a" ELSE word[i]]

\* lines 218-232: count_syllables
CountSyllables(word) ==
    LET lowered == Lower(word)
        stripped == IF lowered[Len(lowered)] = "e"
                    THEN SubSeq(lowered, 1, Len(lowered) - 1) ELSE lowered
        vowel(i) == stripped[i] \in {"a", "e"}
        syllables == Cardinality({i \in DOMAIN stripped :
                                     vowel(i) /\ (i = 1 \/ ~vowel(i - 1))})
    IN Max(1, syllables)

\* line 235: sum(count_syllables(word) for word in words)
RECURSIVE SumSyllables(_)
SumSyllables(words) ==
    IF words = <<>> THEN 0
    ELSE CountSyllables(Head(words)) + SumSyllables(Tail(words))

\* line 212: sum(len(word) for word in words)
RECURSIVE SumLengths(_)
SumLengths(words) ==
    IF words = <<>> THEN 0 ELSE Len(Head(words)) + SumLengths(Tail(words))

\* max(n, 1) without the floor
NotFloored(n) == n

\* max(n, 1), lines 207 and 211-213
FlooredAt1(n) == Max(n, 1)

\* lines 216-243: the Flesch score 206.835 - 1.015 * avg_sentence_length
\* - 84.6 * avg_syllables_per_word clamped to [0, 100], as a fraction over
\* 1000 * sentence_count * word_count
ReadabilityScore(words, sentence_count) ==
    LET word_count == Len(words)
    IN IF sentence_count > 0 /\ word_count > 0
       THEN LET total_syllables == SumSyllables(words)
                den == 1000 * FlooredAt1(sentence_count) * word_count
                num == 206835 * FlooredAt1(sentence_count) * word_count
                          - 1015 * word_count * word_count
                          - 84600 * total_syllables * FlooredAt1(sentence_count)
            IN <<Max(0, Min(100 * den, num)), den>>
       ELSE <<0, 1>>

\* _calculate_text_statistics, lines 194-255
CalculateTextStatistics(words, sentence_count, paragraphs) ==
    LET word_count == Len(words)
        unique_words == Cardinality({Lower(words[i]) : i \in DOMAIN words})
        avg_sentence_length == <<word_count, FlooredAt1(sentence_count)>>
        avg_word_length == <<SumLengths(words), FlooredAt1(word_count)>>
        vocabulary_richness == <<unique_words, FlooredAt1(word_count)>>
    IN IF DividesByZero(<<avg_sentence_length, avg_word_length,
                          vocabulary_richness>>)
       THEN Raises("ZeroDivisionError")
       ELSE Returns([word_count |-> word_count,
                     sentence_count |-> sentence_count,
                     paragraph_count |-> FlooredAt1(paragraphs),
                     avg_sentence_length |-> avg_sentence_length,
                     avg_word_length |-> avg_word_length,
                     unique_words |-> unique_words,
                     vocabulary_richness |-> vocabulary_richness,
                     readability_score |-> ReadabilityScore(words, sentence_count)])

CallCalculateTextStatistics ==
    /\ ServicesIdle
    /\ \E words \in StatWordLists, sentence_count \in 0..MaxStatSentences,
          paragraphs \in 0..MaxParagraphs :
           /\ paragraphs = 0 => (words = <<>> /\ sentence_count = 0)
           /\ Call("_calculate_text_statistics",
                   [words |-> words, sentence_count |-> sentence_count,
                    paragraphs |-> paragraphs],
                   CalculateTextStatistics(words, sentence_count, paragraphs))

\* -------------------------------------- DocumentParser.parse_document
\* document_parser.py lines 53-64: SUPPORTED_EXTENSIONS
SupportedExtensions == {".txt", ".docx", ".doc", ".pdf", ".rtf", ".odt",
                        ".html", ".htm", ".md", ".markdown"}

\* Path(filename).suffix of the file names handed in: the supported ones, one
\* in upper case, one that is not supported, and none at all
Suffixes == SupportedExtensions \cup {".PDF", ".exe", ""}

\* lines 9-44: the parser libraries an installation can hold
Libraries == {"docx", "PyPDF2", "striprtf", "odf", "bs4", "markdown"}

\* str.lower() of a suffix
LowerSuffix(suffix) == IF suffix = ".PDF" THEN ".pdf" ELSE suffix

\* lines 68-79: available_parsers, for the libraries that could be imported
AvailableParsers(libs) ==
    [ext \in SupportedExtensions |->
        CASE ext = ".txt" -> TRUE
          [] ext = ".docx" -> "docx" \in libs
          [] ext = ".doc" -> FALSE
          [] ext = ".pdf" -> "PyPDF2" \in libs
          [] ext = ".rtf" -> "striprtf" \in libs
          [] ext = ".odt" -> "odf" \in libs
          [] ext \in {".html", ".htm"} -> "bs4" \in libs
          [] ext \in {".md", ".markdown"} -> "markdown" \in libs]

HTTPException(status_code, detail) ==
    [type |-> "HTTPException", status_code |-> status_code, detail |-> detail]

\* lines 85-108: detect_file_type
DetectFileType(suffix, libs) ==
    LET file_ext == LowerSuffix(suffix)
    IN IF file_ext \notin SupportedExtensions
       THEN Raises(HTTPException(400, "Unsupported file format"))
       ELSE IF ~AvailableParsers(libs)[file_ext]
       THEN Raises(HTTPException(500, "Parser not available"))
       ELSE Returns(file_ext)

\* what the parser of a format can do with the file: return its text, raise
\* an exception of its library or of open(), or (_parse_pdf, line 204) raise
\* an HTTPException of its own when no page holds text
ParserOutcomes == {"text", "exception", "no_text"}

\* lines 150-280: _parse_txt .. _parse_markdown
ParseFormat(file_ext, parser) ==
    CASE parser = "exception" -> Raises([type |-> "Exception"])
      [] parser = "no_text" /\ file_ext = ".pdf" ->
             Raises(HTTPException(400, "No text could be extracted from PDF"))
      [] OTHER -> Returns(<<"str", file_ext>>)

\* lines 116-139, the body of the try block
ParseBody(suffix, libs, parser) ==
    LET detected == DetectFileType(suffix, libs)
    IN IF detected.kind = "raise" THEN detected
       ELSE ParseFormat(detected.value, parser)

\* parse_document without `except HTTPException: raise`
ParseDocumentRewrapped(suffix, libs, parser) ==
    LET body == ParseBody(suffix, libs, parser)
    IN IF body.kind = "raise"
       THEN Raises(HTTPException(500, "Failed to parse document"))
       ELSE body

\* parse_document, lines 110-148: an HTTPException is raised again as it is,
\* any other exception becomes HTTP 500 'Failed to parse document'
ParseDocument(suffix, libs, parser) ==
    LET body == ParseBody(suffix, libs, parser)
    IN IF body.kind = "raise" /\ body.value.type # "HTTPException"
       THEN Raises(HTTPException(500, "Failed to parse document"))
       ELSE body

CallParseDocument ==
    /\ ServicesIdle
    /\ \E suffix \in Suffixes, libs \in SUBSET Libraries,
          parser \in ParserOutcomes :
           Call("parse_document",
                [suffix |-> suffix, libs |-> libs, parser |-> parser],
                ParseDocument(suffix, libs, parser))

\* ------------------------------------------- TextProcessor.clean_text
\* The characters of a text: a word character, a space, a tab (whitespace
\* that is no space), a comma (neither \w nor \s nor one of . ! ?) and a full
\* stop.
Characters == {"a", " ", "\t", ",", "."}

Whitespace == {" ", "\t"}

CleanTexts == UNION {[1..n -> Characters] : n \in 0..MaxTextLen}

\* line 31: re.sub(r'\s+', ' ', text): every run of whitespace becomes one
\* space
RECURSIVE CollapseWhitespace(_)
CollapseWhitespace(text) ==
    IF text = <<>> THEN <<>>
    ELSE IF Head(text) \notin Whitespace
    THEN <<Head(text)>> \o CollapseWhitespace(Tail(text))
    ELSE IF Len(text) > 1 /\ text[2] \in Whitespace
    THEN CollapseWhitespace(Tail(text))
    ELSE <<" ">> \o CollapseWhitespace(Tail(text))

\* line 33: re.sub(r'[^\w\s\.\!\?]', '', text)
RemoveSpecial(text) == SelectSeq(text, LAMBDA c : c # ",")

\* line 34: text.strip()
RECURSIVE Strip(_)
Strip(text) ==
    IF text = <<>> THEN <<>>
    ELSE IF Head(text) \in Whitespace THEN Strip(Tail(text))
    ELSE IF text[Len(text)] \in Whitespace
    THEN Strip(SubSeq(text, 1, Len(text) - 1))
    ELSE text

\* clean_text, lines 28-34
CleanText(text) == Strip(RemoveSpecial(CollapseWhitespace(text)))

CallCleanText ==
    /\ ServicesIdle
    /\ \E text \in CleanTexts :
           Call("clean_text", [text |-> text], CleanText(text))

\* ------------------------------------------------ properties of analyze
\* the call has ended: analyze returned its result or raised to its caller
Ended == pc \in {"returned", "raised"}

InsightFault == insight_outcome \in {"raised", "nothing", "unavailable"}

\* C1: analyze never raises to its caller; whatever the input and wherever
\* the run fails, it returns a result in which the failure is recorded.
C1_NeverRaises ==
    /\ pc # "raised"
    /\ (pc = "returned" /\ failed # "none") =>
           (Res.status = "failed" /\ Res.error_message # None)

\* C2: when a hard stage raised, whatever the exception, the call returns a
\* result with status FAILED, a non-empty error_message and metadata with
\* start_time and end_time.
C2_HardStageFault ==
    (Ended /\ failed \in HardStages) =>
        /\ pc = "returned"
        /\ Res.status = "failed"
        /\ Res.error_message \notin {None, Some("")}
        /\ Res.metadata # None
        /\ Res.metadata[1].start_time \in Times
        /\ Res.metadata[1].end_time \in Times

C4_StatusForwardThenFrozen ==
    [][/\ (result # None /\ result' # None) =>
          /\ StatusRank(result'[1].status) >= StatusRank(Res.status)
          /\ (Res.status \in TerminalStatus => result' = result)
       /\ \A i \in DOMAIN analysis_cache \cap DOMAIN analysis_cache' :
              analysis_cache'[i] = analysis_cache[i]]_vars

\* C5: a result whose status is COMPLETED has textStatistics, keyness,
\* semanticClustering and sentiment populated.
C5_CompletedIsFull ==
    (result # None /\ Res.status = "completed") =>
        /\ Res.textStatistics # None
        /\ Res.keyness # None
        /\ Res.semanticClustering # None
        /\ Res.sentiment # None

C5_Witness ==
    /\ pc = "returned"
    /\ Res.status = "completed"
    /\ Res.aiInsights # None
    /\ Res.sentiment # None

\* C6: a returned result whose status is FAILED has error_message set, holds
\* the payload of exactly the stages that completed, and holds no payload of
\* the stage that failed or of a later stage.
C6_FailedKeepsCompletedPayloads ==
    (pc = "returned" /\ Res.status = "failed") =>
        /\ Res.error_message # None
        /\ \A s \in HardStages \ {"normalize"} :
               (Res[PayloadOf(s)] # None) <=> (s \in done)
        /\ (Res.semanticClusters # None) <=> ("clustering" \in done)
        /\ (Res.aiInsights # None) => ("insight" \in done)
        /\ \A s \in HardStages \cup {"insight"} :
               (failed \in HardStages /\ StageIndex(s) >= StageIndex(failed)
                   /\ PayloadOf(s) # "none")
               => Res[PayloadOf(s)] = None

C6_Witness ==
    /\ pc = "returned"
    /\ Res.status = "failed"
    /\ failed = "clustering"
    /\ Res.keyness # None
    /\ Res.semanticClustering = None


\* ------------------------------------------------ properties of the router
\* request r gets its response in this step
Finishes(r) == req[r].pc # "done" /\ req'[r].pc = "done"

Retrievals == {"get", "consume"}

\* C7: submit does not surface a failure as a raised error: whatever happens
\* in the stages or in the construction of the result, the caller of
\* POST /analyze receives an AnalysisResult that carries a status.
C7_SubmitReturnsResult ==
    \A r \in Req :
        (req[r].kind = "analyze" /\ req[r].pc = "done") =>
            /\ req[r].resp.code = 200
            /\ req[r].resp.body # None
            /\ req[r].resp.body[1][2].status \in AnalysisStatus

\* C8: consume is single-use: once a download of an id has returned the
\* result, every later download and every later get of that id returns
\* NotFound.
C8_ConsumeSingleUse ==
    [][\A r \in Req :
          (Finishes(r) /\ req[r].kind \in Retrievals /\ downloads[req[r].id] > 0)
              => req'[r].resp.code = 404]_vars

C8_Witness ==
    \E r \in Req :
        /\ req[r].kind = "consume" /\ req[r].pc = "done"
        /\ req[r].resp.code = 404
        /\ downloads[req[r].id] = 1

\* C9: get is idempotent: it leaves the results store as it is, and a get
\* returns what the previous get of the same id returned when no download
\* of that id came in between.
C9_GetIdempotent ==
    [][\A r \in Req :
          (Finishes(r) /\ req[r].kind = "get") =>
              /\ analysis_cache' = analysis_cache
              /\ last_get[req[r].id] # None =>
                     req'[r].resp = last_get[req[r].id][1]]_vars

C9_Witness ==
    \E r1, r2 \in Req :
        /\ r1 # r2
        /\ req[r1].kind = "get" /\ req[r2].kind = "get"
        /\ req[r1].id = req[r2].id
        /\ req[r1].pc = "done" /\ req[r2].pc = "done"
        /\ req[r1].resp.code = 200
        /\ req[r2].resp = req[r1].resp

\* C10: concurrent get and consume requests on one id are serialized: at
\* most one download of an id succeeds, no retrieval fails with anything but
\* NotFound, and a get returns a result only while the id is in the store
\* and has not been evicted.
C10_RetrievalSerialized ==
    /\ [](/\ \A r \in Req :
                (req[r].kind \in Retrievals /\ req[r].pc = "done") =>
                    req[r].resp.code \in {200, 404}
          /\ \A i \in Ids : downloads[i] <= 1)
    /\ [][\A r \in Req :
             (Finishes(r) /\ req[r].kind = "get" /\ req'[r].resp.code = 200) =>
                 /\ req[r].id \in DOMAIN analysis_cache
                 /\ downloads[req[r].id] = 0]_vars

\* a download and a get of one id in flight together (neither response has
\* been sent): the download got the result, the get NotFound
C10_Witness ==
    \E r1, r2 \in Req :
        /\ req[r1].id = req[r2].id
        /\ req[r1].kind = "consume" /\ req[r1].pc = "done"
        /\ req[r1].resp.code = 200
        /\ req[r2].kind = "get" /\ req[r2].pc = "done"
        /\ req[r2].resp.code = 404


\* C11: a get or a download of an id that is not in the results store
\* returns NotFound (404) and leaves the store as it is: no entry is added,
\* removed or modified.
C11_UnknownIdNotFound ==
    [][\A r \in Req :
          (Finishes(r) /\ req[r].kind \in Retrievals
              /\ req[r].id \notin DOMAIN analysis_cache)
          => /\ req'[r].resp = Response(404, None)
             /\ analysis_cache' = analysis_cache]_vars

\* a download of an id that was never stored got NotFound while another
\* id is stored
C11_Witness ==
    \E r \in Req :
        /\ req[r].kind = "consume" /\ req[r].pc = "done"
        /\ req[r].resp.code = 404
        /\ downloads[req[r].id] = 0
        /\ req[r].id \notin issued
        /\ analysis_cache # <<>>


\* the requests that hand in a text: POST /analyze and POST /upload
Submissions == {"analyze", "upload"}

\* C12: every submit or upload whose input is accepted and whose stages
\* raise nothing stores its result in the results store under an id that is
\* fresh for that request, overwriting no entry of another request; a get of
\* a stored id returns exactly the stored result.
C12_SubmitStoresFresh ==
    [][\A r \in Req :
          /\ (Finishes(r) /\ req[r].kind \in Submissions
                  /\ req'[r].error \notin {Some("HTTPException"), Some("StageError")})
             => /\ req'[r].resp.code = 200
                /\ req'[r].id \in DOMAIN analysis_cache' \ DOMAIN analysis_cache
                /\ \A i \in DOMAIN analysis_cache :
                       /\ i \in DOMAIN analysis_cache'
                       /\ analysis_cache'[i] = analysis_cache[i]
          /\ (Finishes(r) /\ req[r].kind = "get"
                  /\ req[r].id \in DOMAIN analysis_cache)
             => req'[r].resp.body = Some(<<"object", analysis_cache[req[r].id]>>)]_vars

\* C14: an upload whose file name does not end in .txt is rejected with
\* HTTP 400 in the first step of the handler: it generates no id, never
\* reaches the saving of the temporary file or the analysis, and no step of
\* it changes the temporary files or the results store.
C14_UnsupportedUploadRejected ==
    /\ [](\A r \in Req :
             req[r].filename = "other" =>
                 /\ req[r].pc \in {"start", "done"}
                 /\ req[r].analysis_id = None /\ req[r].file_path = None
                 /\ req[r].background = None
                 /\ req[r].pc = "done" =>
                        /\ req[r].resp = Response(400, None)
                        /\ req[r].error = Some("HTTPException"))
    /\ [][\A r \in Req :
             (req[r].filename = "other" /\ req'[r] # req[r]) =>
                 /\ temp_files' = temp_files
                 /\ analysis_cache' = analysis_cache
                 /\ issued' = issued]_vars

\* an upload of a file that is no .txt file has been rejected while the
\* temporary file of another upload exists
C14_Witness ==
    \E r \in Req :
        /\ req[r].kind = "upload" /\ req[r].filename = "other"
        /\ req[r].pc = "done" /\ req[r].resp.code = 400
        /\ temp_files # {}


\* ------------------------------------- properties of the service methods
\* the arguments of an analyze_themes call make it fail: no client, a
\* generate call that raises, times out or answers without 'response', a
\* malformed cluster among the summarised ones, or a text that is no str
ThemesFault(a) ==
    \/ ~a.client
    \/ a.outcome # "response"
    \/ a.text[1] # "str"
    \/ a.clusters = NoneType
    \/ \E i \in 1..SummaryClusters :
           i \in DOMAIN a.clusters /\ a.clusters[i] # "ok"

\* C13: analyze_themes never raises; when the client is unavailable, the
\* generate call raises or times out, or the response or the cluster summary
\* is malformed, it returns None.
C13_ThemesNeverRaises ==
    svc.fn = "analyze_themes" =>
        /\ svc.out.kind = "return"
        /\ ThemesFault(svc.args) => svc.out.value = None

\* a call with a client whose cluster list holds a dict without 'label'
\* returned None
C13_Witness ==
    /\ svc.fn = "analyze_themes"
    /\ svc.args.client
    /\ svc.args.outcome = "response"
    /\ svc.args.clusters # NoneType
    /\ \E i \in DOMAIN svc.args.clusters : svc.args.clusters[i] = "no_label"
    /\ svc.out = Returns(None)


\* C15: in the keyness result built by analyze the ranks of the N keywords
\* are 1..N in list order, the absolute scores do not increase along the
\* ranks, and every keyword of positive keyness has a frequency of at least 1.
C15_RanksOrdered ==
    svc.fn = "calculate_keyness" =>
        LET kw == svc.out.keywords
        IN /\ svc.out.total_keywords = Len(kw)
           /\ \A i \in 1..Len(kw) :
                 /\ kw[i].rank = i
                 /\ kw[i].score = Abs(kw[i].effect_size)
                 /\ i < Len(kw) => kw[i].score >= kw[i + 1].score
                 /\ kw[i].effect_size > 0 => kw[i].frequency >= 1

\* a full result (20 keywords) with both signs and two different scores
C15_Witness ==
    /\ svc.fn = "calculate_keyness"
    /\ svc.out.total_keywords = FinalCap
    /\ \E i, j \in 1..FinalCap :
          /\ svc.out.keywords[i].effect_size > 0
          /\ svc.out.keywords[j].effect_size < 0
          /\ svc.out.keywords[i].score # svc.out.keywords[j].score


\* C16: when vectorization or clustering raises, create_clusters returns
\* exactly k groups, k being the clamped cluster count; so does a text with a
\* single qualifying sentence.
C16_FallbackHasClampedGroups ==
    (svc.fn = "create_clusters"
        /\ (svc.out.path = "fallback" \/ svc.args.sentences = 1)) =>
        Len(svc.out.clusters) = svc.out.clamped

\* C17 as stated: the cluster count used by create_clusters is at least 2
\* and at most half the number of qualifying sentences.
C17_ClampedToHalf ==
    svc.fn = "create_clusters" =>
        /\ svc.out.n_clusters >= 2
        /\ 2 * svc.out.n_clusters <= svc.args.sentences

\* C17 (amended): with fewer qualifying sentences than requested clusters the
\* count becomes max(2, n // 2): at least 2 and at most max(2, n / 2);
\* otherwise the requested count is used unchanged; the count handed to
\* KMeans is at least 1 and never over the number of sentences.
C17_ClampWhenFewer ==
    svc.fn = "create_clusters" =>
        LET n == svc.args.sentences
            k == svc.args.n_clusters
        IN /\ n < k => /\ svc.out.clamped >= 2
                       /\ 2 * svc.out.clamped <= Max(4, n)
           /\ n >= k => svc.out.clamped = k
           /\ svc.out.n_clusters <= svc.out.clamped
           /\ svc.out.path = "kmeans" =>
                  /\ svc.out.n_clusters \in 1..n
                  /\ Len(svc.out.clusters) = svc.out.n_clusters

\* six sentences for seven requested clusters: the count is 6 // 2 = 3
C17_Witness ==
    /\ svc.fn = "create_clusters"
    /\ svc.args.sentences = 6 /\ svc.args.n_clusters = 7
    /\ svc.out.clamped = 3

RECURSIVE SumSizes(_)
SumSizes(clusters) ==
    IF clusters = <<>> THEN 0 ELSE Head(clusters).size + SumSizes(Tail(clusters))

\* C18: the sizes of the clusters returned by create_clusters add up to the
\* number of qualifying sentences of the input.
C18_SizesSumToSentences ==
    svc.fn = "create_clusters" =>
        SumSizes(svc.out.clusters) = svc.args.sentences


C20_StatisticsInRange ==
    svc.fn = "_calculate_text_statistics" =>
        /\ svc.out.kind = "return"
        /\ LET st == svc.out.value
           IN /\ st.unique_words <= Max(st.word_count, 1)
              /\ st.vocabulary_richness[2] > 0
              /\ st.vocabulary_richness[1] >= 0
              /\ st.vocabulary_richness[1] <= st.vocabulary_richness[2]
              /\ st.readability_score[2] > 0
              /\ st.readability_score[1] >= 0
              /\ st.readability_score[1] <= 100 * st.readability_score[2]
              /\ st.avg_sentence_length[2] > 0 /\ st.avg_word_length[2] > 0
              /\ st.paragraph_count >= 1

\* the statistics of the empty text have been returned
C20_Witness ==
    /\ svc.fn = "_calculate_text_statistics"
    /\ svc.args.words = <<>> /\ svc.args.sentence_count = 0
    /\ svc.args.paragraphs = 0
    /\ svc.out.kind = "return"
    /\ svc.out.value.vocabulary_richness = <<0, 1>>
    /\ svc.out.value.readability_score = <<0, 1>>

\* C21: for an input in which every word occurs exactly once and that holds
\* a positive-indicator word and a negative-indicator word, calculate_keyness
\* returns at least one positive-leaning and one negative-leaning term, with
\* raw scores of opposite sign.
C21_HapaxBothSigns ==
    (/\ svc.fn = "calculate_keyness"
     /\ \A i \in DOMAIN svc.args.table : svc.args.table[i].freq = 1
     /\ \E i, j \in DOMAIN svc.args.table :
            /\ svc.args.table[i].lexicon = "positive"
            /\ svc.args.table[j].lexicon = "negative") =>
        \E i, j \in DOMAIN svc.out.keywords :
            /\ svc.out.keywords[i].effect_size > 0
            /\ svc.out.keywords[j].effect_size < 0

\* C22: parse_document fails with a distinct error per cause: HTTP 400
\* 'Unsupported file format' when the extension is not supported, HTTP 500
\* 'Parser not available' when it is supported and its parser library is
\* missing, HTTP 500 'Failed to parse document' when the parser raises; an
\* HTTPException raised inside is passed on unchanged.
C22_ParseErrorsDistinct ==
    svc.fn = "parse_document" =>
        LET ext == LowerSuffix(svc.args.suffix)
            supported == ext \in SupportedExtensions
            available == supported /\ AvailableParsers(svc.args.libs)[ext]
        IN /\ ~supported =>
                  svc.out = Raises(HTTPException(400, "Unsupported file format"))
           /\ (supported /\ ~available) =>
                  svc.out = Raises(HTTPException(500, "Parser not available"))
           /\ (available /\ svc.args.parser = "exception") =>
                  svc.out = Raises(HTTPException(500, "Failed to parse document"))
           /\ (available /\ svc.args.parser = "no_text" /\ ext = ".pdf") =>
                  svc.out = Raises(HTTPException(400,
                                "No text could be extracted from PDF"))
           /\ svc.out.kind = "raise" => svc.out.value.type = "HTTPException"
           /\ (available /\ svc.args.parser = "text") => svc.out.kind = "return"

\* a .PDF file without text, with PyPDF2 installed: the parser's own
\* HTTPException (400) has left parse_document
C22_Witness ==
    /\ svc.fn = "parse_document"
    /\ svc.args.suffix = ".PDF" /\ "PyPDF2" \in svc.args.libs
    /\ svc.args.parser = "no_text"
    /\ svc.out.kind = "raise" /\ svc.out.value.status_code = 400

\* C23: in every run of analyze the stages start in the order normalizer,
\* statistics, keyness, clusterer, sentiment, insight generation, each one
\* only after every earlier stage has completed; the insight generator is
\* never called after a hard stage has failed.
C23_StagesInOrder ==
    /\ [](\A i \in DOMAIN StageOrder :
             pc = StageOrder[i] =>
                 /\ done = {StageOrder[j] : j \in 1..(i - 1)}
                 /\ failed = "none")
    /\ [](insight_outcome # "none" =>
             /\ HardStages \subseteq done
             /\ failed \notin HardStages)
    /\ [][/\ failed \in HardStages => pc' # "insight"
          /\ \A i \in DOMAIN StageOrder :
                 (pc = StageOrder[i] /\ pc' \in HardStages) =>
                     (i < Len(StageOrder) /\ pc' = StageOrder[i + 1])]_vars

\* a run whose clusterer raised has returned: the three stages before it
\* completed, the sentiment and the insight stage never started
C23_Witness ==
    /\ pc = "returned"
    /\ failed = "clustering"
    /\ done = {"normalize", "statistics", "keyness"}
    /\ insight_outcome = "none"

\* the words of a table that calculate_keyness scores with the given sign
Candidates(t, sign) == {i \in DOMAIN t : Classify(t[i]) = sign}

\* the keywords of a result that have the given sign
Returned(kw, sign) ==
    {i \in DOMAIN kw : IF sign = "positive" THEN kw[i].effect_size > 0
                       ELSE kw[i].effect_size < 0}

\* C24: calculate_keyness caps the positive and the negative subset
\* independently (at most 12 each, the highest absolute scores of each sign),
\* then returns at most 20 items of their union, sorted by non-increasing
\* absolute score; an input without word tokens yields the empty list.
C24_CapsPerSign ==
    svc.fn = "calculate_keyness" =>
        LET t == svc.args.table
            kw == svc.out.keywords
            total == SumFreq(t)
        IN /\ Len(kw) = Min(FinalCap,
                            Min(PositiveCap, Cardinality(Candidates(t, "positive")))
                          + Min(NegativeCap, Cardinality(Candidates(t, "negative"))))
           /\ Cardinality(Returned(kw, "positive")) <= PositiveCap
           /\ Cardinality(Returned(kw, "negative")) <= NegativeCap
           /\ \A i \in DOMAIN kw : i < Len(kw) => kw[i].score >= kw[i + 1].score
           /\ \A sign \in {"positive", "negative"} :
                  /\ \A i \in Returned(kw, sign) : kw[i].word \in Candidates(t, sign)
                  /\ \A i \in Returned(kw, sign), c \in Candidates(t, sign) :
                         (\A j \in DOMAIN kw : kw[j].word # c) =>
                             KeynessScore(t[c], total).score <= kw[i].score
           /\ \A i, j \in DOMAIN kw : kw[i].word = kw[j].word => i = j
           /\ t = <<>> => kw = <<>>

\* 13 positive and 13 negative candidates of one score: the result holds the
\* 12 positive ones kept by the cap and 8 negative ones
C24_Witness ==
    /\ svc.fn = "calculate_keyness"
    /\ Cardinality(Candidates(svc.args.table, "positive")) > PositiveCap
    /\ Cardinality(Candidates(svc.args.table, "negative")) > NegativeCap
    /\ Cardinality(Returned(svc.out.keywords, "positive")) = PositiveCap
    /\ Cardinality(Returned(svc.out.keywords, "negative")) = FinalCap - PositiveCap

\* C25: calculate_keyness identifies underused words: an entry of the
\* reference table whose reference frequency is over 0.005 and whose
\* frequency in the text is less than half of it (a word absent from the text
\* included) is a candidate with a negative score, so the result depends on
\* the reference table passed in.
C25_UnderusedWords ==
    (svc.fn = "calculate_keyness"
        /\ svc.args.table # <<>>
        /\ svc.args.reference_freq = <<"dict", "underused">>) =>
        /\ \E i \in DOMAIN svc.out.keywords :
               /\ svc.out.keywords[i].word = 0
               /\ svc.out.keywords[i].effect_size < 0
        /\ svc.out # KeynessResult(CalculateKeyness(svc.args.table,
                                                    <<"dict", "empty">>))

\* C26: for every input the text returned by clean_text has collapsed
\* whitespace: no leading or trailing whitespace and no two consecutive
\* whitespace characters, also where punctuation was stripped between two
\* spaces; hence clean_text(clean_text(t)) = clean_text(t).
C26_CleanTextCollapsed ==
    svc.fn = "clean_text" =>
        LET out == svc.out
        IN /\ out # <<>> => (out[1] \notin Whitespace
                                /\ out[Len(out)] \notin Whitespace)
           /\ \A i \in 1..(Len(out) - 1) :
                  ~(out[i] \in Whitespace /\ out[i + 1] \in Whitespace)
           /\ CleanText(out) = out

\* the stages whose elapsed time analyze measures
TimedStages == {"keyness", "clustering", "sentiment"}

\* C27: each timed stage of analyze (keyness, clusterer, sentiment) has its
\* measured elapsed time recorded in the returned result once the stage has
\* completed, also when a later stage failed.
C27_TimingsRecorded ==
    \A s \in TimedStages :
        (pc = "returned" /\ s \in done) =>
            /\ Res[PayloadOf(s)] # None
            /\ "processing_time_ms" \in DOMAIN Res[PayloadOf(s)][1]
            /\ Res[PayloadOf(s)][1].processing_time_ms # None

\* C28: every temporary file saved by an upload has its deletion scheduled
\* on every path of the request, also when reading the file fails or the
\* analysis raises, so no file is left behind by a request that has ended;
\* the deletion runs as background work after the response, never during
\* the analysis.
C28_TempFilesDeleted ==
    /\ [](\A f \in temp_files :
             \E r \in Req : \/ req[r].file_path = Some(f)
                            \/ req[r].background = Some(f))
    /\ [][\A r \in Req :
             (Finishes(r) /\ req[r].kind = "upload" /\ req[r].pc = "reading") =>
                 req'[r].background = req[r].file_path]_vars
    /\ [][temp_files' # temp_files /\ temp_files' \subseteq temp_files =>
             \E r \in Req : req[r].pc = "done" /\ req'[r] = FreeSlot]_vars

\* the positions at which a handler can be while another handler runs: its
\* arrival, the awaits of upload_file before the analysis, and the end
SuspensionPoints == {"free", "start", "saving", "reading", "done"}

\* C29: for concurrent requests served by the shared service instances (one
\* TfidfVectorizer and one PCA for all calls) the stages of one request run
\* to completion without interleaving with those of another: a request fits
\* the shared vectorizer and uses that fit in one step that ends its analysis,
\* so no request is ever suspended between its fit and its use and none uses
\* the fit of another request.
C29_AnalysisNotInterleaved ==
    /\ [](\A r \in Req : req[r].pc \in SuspensionPoints)
    /\ [](vectorizer # 0 =>
             /\ req[vectorizer].pc = "done"
             /\ req[vectorizer].kind \in Submissions)
    /\ [][\A r \in Req :
             (vectorizer' = r /\ vectorizer # r) =>
                 (Finishes(r) /\ req[r].kind \in Submissions)]_vars

\* two submissions in flight: an upload is suspended at the read of its file
\* while a POST /analyze has fitted the shared vectorizer and ended
C29_Witness ==
    \E r1, r2 \in Req :
        /\ req[r1].kind = "upload" /\ req[r1].pc = "reading"
        /\ req[r2].kind = "analyze" /\ req[r2].pc = "done"
        /\ vectorizer = r2

\* C30: in every result returned by analyze metadata.start_time equals the
\* timestamp of the result; on a COMPLETED result model_versions holds an
\* 'ollama' entry if and only if aiInsights is present; the metadata of a
\* FAILED result carries start and end time, elapsed time and the request
\* parameters, but no input size and no model versions.
C30_MetadataInvariants ==
    pc = "returned" =>
        /\ Res.metadata # None
        /\ LET metadata == Res.metadata[1]
           IN /\ metadata.start_time = Res.timestamp
              /\ Res.status = "completed" =>
                     /\ metadata.model_versions # None
                     /\ ("ollama" \in metadata.model_versions[1])
                            <=> (Res.aiInsights # None)
              /\ Res.status = "failed" =>
                     /\ metadata.end_time \in Times
                     /\ metadata.processing_time_seconds \in 0..MaxTime
                     /\ metadata.parameters = ParametersOrEmpty(args.parameters)
                     /\ metadata.file_size_bytes = None
                     /\ metadata.model_versions = None

\* a run without insight (the generator returned nothing) has completed
\* after its start time: its model_versions hold no 'ollama' entry
C30_Witness ==
    /\ pc = "returned"
    /\ Res.status = "completed"
    /\ insight_outcome = "nothing"
    /\ Res.metadata[1].model_versions = Some({"spacy"})
    /\ Res.metadata[1].start_time = Res.timestamp
    /\ Res.metadata[1].processing_time_seconds > 0


Next ==
    \/ \E t \in Texts, i \in AnalysisIds, p \in Parameters : Analyze(t, i, p)
    \/ Normalize
    \/ Statistics
    \/ Keyness
    \/ Clustering
    \/ Sentiment
    \/ Insights
    \/ Finalize
    \/ Complete
    \/ ExceptStatus
    \/ ExceptMessage
    \/ ExceptMetadata
    \/ Return

\* AnalysisPipeline.analyze, called again and again
Spec == Init /\ [][Next]_vars

\* the router, from the state after import
SpecApi == InitApi /\ [][NextApi]_vars

\* the router, from every content of the results store
SpecStore == InitStore /\ [][NextApi]_vars

NextServices ==
    \/ CallAnalyzeThemes
    \/ CallCalculateKeyness
    \/ CallCreateClusters
    \/ CallAnalyzeSentiment
    \/ CallCalculateTextStatistics
    \/ CallParseDocument
    \/ CallCleanText
    \/ ServiceReturn

\* the service methods, called with every argument within the bounds
SpecServices == InitApi /\ [][NextServices]_vars

====
